---------------------------- MODULE Spec2Model ----------------------------
(***************************************************************************)
(* A model of the recipe backend in src/app.py: the POST /api/recipes      *)
(* pipeline (validate, call the AI service, strip the markdown fence,      *)
(* parse, insert each draft, commit, respond), the read handlers, the      *)
(* health and model-listing handlers, and init_database.                   *)
(*                                                                         *)
(* Text is a sequence of one-character strings.  Three characters stand    *)
(* for whole JSON object literals of an AI reply: "a" and "b" are recipe   *)
(* objects with every field the handler reads, "m" is an object without a  *)
(* "title" key.  "7" is a JSON number.  Everything else is itself.         *)
(*                                                                         *)
(* The store is MySQL as the code uses it: mysql.connector.connect with    *)
(* its default autocommit = False, a table created without ENGINE (the     *)
(* server's default, transactional InnoDB), one conn.commit() per batch.   *)
(* An INSERT is therefore pending on its connection until the commit, and  *)
(* only committed rows are in the table other connections read.            *)
(***************************************************************************)
EXTENDS Integers, Sequences, FiniteSets, TLC

\* ------------------------------------------------------------------ bounds

\* Longest content text the fence-extraction specification draws.
MaxContentLen == 5

\* Requests the server receives in one run.
MaxRequests == 2

\* Workers that can be inside get_recipes at once; a request goes to the first
\* free one.
NumWorkers == 2

\* Clients ask get_recipe for the identifiers 1..MaxRecipeId.
MaxRecipeId == 3

\* The store's CURRENT_TIMESTAMP runs from 0 to MaxClock.
MaxClock == 1

\* ---------------------------------------------------------------- constants

\* response.text[:500]
DiagLen == 500

\* ------------------------------------------------------------------- text

Whitespace == {" ", "\n"}

\* The module text cannot hold the backtick character: "^" stands for it.
Backtick == "^"

\* The markdown fence: three backticks.
Fence == <<Backtick, Backtick, Backtick>>

FenceJson == Fence \o <<"j", "s", "o", "n">>

SetMin(S) == CHOOSE x \in S : \A y \in S : x <= y

SetMax(S) == CHOOSE x \in S : \A y \in S : x >= y

\* str.strip(): the text without its leading and trailing whitespace.
Strip(s) ==
    LET keep == {i \in 1..Len(s) : s[i] \notin Whitespace}
    IN  IF keep = {} THEN <<>> ELSE SubSeq(s, SetMin(keep), SetMax(keep))

\* str.find, 1-based: the first position where sub occurs in s, 0 when none.
Find(s, sub) ==
    LET hits == {i \in 1..(Len(s) - Len(sub) + 1) :
                    SubSeq(s, i, i + Len(sub) - 1) = sub}
    IN  IF hits = {} THEN 0 ELSE SetMin(hits)

\* sub in s
Contains(s, sub) == Find(s, sub) # 0

\* s.split(sep)[0]: the text before the first sep, all of s when there is none.
SplitHead(s, sep) ==
    LET i == Find(s, sep)
    IN  IF i = 0 THEN s ELSE SubSeq(s, 1, i - 1)

\* s.split(sep)[1], for s that contains sep: the text between the first sep
\* and the next one (or the end).
SplitSecond(s, sep) ==
    LET i == Find(s, sep)
    IN  SplitHead(SubSeq(s, i + Len(sep), Len(s)), sep)

\* A plausible slip: the plain fence is looked for first, so the tag of a
\* json-tagged fence stays in the payload.
ExtractPlainFirst(text) ==
    LET t == Strip(text)
    IN  IF Contains(t, Fence)
        THEN Strip(SplitHead(SplitSecond(t, Fence), Fence))
        ELSE t

\* recipes_json: the reply stripped, then cut out of its first fence.
ExtractJson(text) ==
    LET t == Strip(text)
    IN  IF Contains(t, FenceJson)
        THEN Strip(SplitHead(SplitSecond(t, FenceJson), Fence))
        ELSE IF Contains(t, Fence)
        THEN Strip(SplitHead(SplitSecond(t, Fence), Fence))
        ELSE t

\* The raw reply that wraps content c.
Wrap(k, c) ==
    IF k = "json" THEN FenceJson \o <<"\n">> \o c \o <<"\n">> \o Fence
    ELSE IF k = "plain" THEN Fence \o <<"\n">> \o c \o <<"\n">> \o Fence
    ELSE c

\* ------------------------------------------------------------------- JSON

\* Parsed values are tagged: [t |-> "arr", v |-> <<values>>],
\* [t |-> "str", v |-> <<characters>>], [t |-> "obj", v |-> <<token>>],
\* [t |-> "num", v |-> <<digits>>].

ObjectTokens == {"a", "b", "m"}

Digits == {"7"}

NoValue == [t |-> "none", v |-> <<>>]

ParseFail == [ok |-> FALSE, val |-> NoValue, pos |-> 0]

ParseOk(val, pos) == [ok |-> TRUE, val |-> val, pos |-> pos]

RECURSIVE SkipWs(_, _)
SkipWs(s, i) ==
    IF i <= Len(s) /\ s[i] \in Whitespace THEN SkipWs(s, i + 1) ELSE i

RECURSIVE ParseDigits(_, _, _)
ParseDigits(s, i, acc) ==
    IF i <= Len(s) /\ s[i] \in Digits
    THEN ParseDigits(s, i + 1, Append(acc, s[i]))
    ELSE ParseOk([t |-> "num", v |-> acc], i)

\* i is the position after the opening quote.
RECURSIVE ParseString(_, _, _)
ParseString(s, i, acc) ==
    IF i > Len(s) THEN ParseFail
    ELSE IF s[i] = "\"" THEN ParseOk([t |-> "str", v |-> acc], i + 1)
    ELSE IF s[i] = "\\"
    THEN IF i + 1 <= Len(s) /\ s[i + 1] \in {"\"", "\\"}
         THEN ParseString(s, i + 2, Append(acc, s[i + 1]))
         ELSE ParseFail
    ELSE IF s[i] = "\n" THEN ParseFail
    ELSE ParseString(s, i + 1, Append(acc, s[i]))

RECURSIVE ParseValue(_, _)
RECURSIVE ParseElems(_, _, _)
ParseValue(s, i) ==
    IF i > Len(s) THEN ParseFail
    ELSE IF s[i] = "["
    THEN LET j == SkipWs(s, i + 1)
         IN  IF j <= Len(s) /\ s[j] = "]"
             THEN ParseOk([t |-> "arr", v |-> <<>>], j + 1)
             ELSE ParseElems(s, j, <<>>)
    ELSE IF s[i] = "\"" THEN ParseString(s, i + 1, <<>>)
    ELSE IF s[i] \in ObjectTokens
    THEN ParseOk([t |-> "obj", v |-> <<s[i]>>], i + 1)
    ELSE IF s[i] \in Digits THEN ParseDigits(s, i, <<>>)
    ELSE ParseFail

ParseElems(s, i, acc) ==
    LET r == ParseValue(s, i)
    IN  IF ~r.ok THEN ParseFail
        ELSE LET j == SkipWs(s, r.pos)
             IN  IF j > Len(s) THEN ParseFail
                 ELSE IF s[j] = "]"
                 THEN ParseOk([t |-> "arr", v |-> Append(acc, r.val)], j + 1)
                 ELSE IF s[j] = ","
                 THEN ParseElems(s, SkipWs(s, j + 1), Append(acc, r.val))
                 ELSE ParseFail

\* json.loads: ok is FALSE where Python raises json.JSONDecodeError.
JsonLoads(s) ==
    LET r == ParseValue(s, SkipWs(s, 1))
    IN  IF r.ok /\ SkipWs(s, r.pos) = Len(s) + 1
        THEN [ok |-> TRUE, val |-> r.val]
        ELSE [ok |-> FALSE, val |-> NoValue]

RECURSIVE Escape(_)
Escape(str) ==
    IF str = <<>> THEN <<>>
    ELSE (IF Head(str) \in {"\"", "\\"} THEN <<"\\", Head(str)>> ELSE <<Head(str)>>)
         \o Escape(Tail(str))

Quote(str) == <<"\"">> \o Escape(str) \o <<"\"">>

RECURSIVE JoinQuoted(_)
JoinQuoted(list) ==
    IF list = <<>> THEN <<>>
    ELSE IF Len(list) = 1 THEN Quote(list[1])
    ELSE Quote(list[1]) \o <<",", " ">> \o JoinQuoted(Tail(list))

\* A slip in the serializer: the items are written unescaped.
RECURSIVE JoinRaw(_)
JoinRaw(list) ==
    IF list = <<>> THEN <<>>
    ELSE IF Len(list) = 1 THEN <<"\"">> \o list[1] \o <<"\"">>
    ELSE <<"\"">> \o list[1] \o <<"\"">> \o <<",", " ">> \o JoinRaw(Tail(list))

JsonDumpsUnescaped(list) == <<"[">> \o JoinRaw(list) \o <<"]">>

\* json.dumps of a list of strings, with Python's default separators.
JsonDumps(list) == <<"[">> \o JoinQuoted(list) \o <<"]">>

\* The Python list of strings a parsed array of strings is.
AsList(val) == [i \in 1..Len(val.v) |-> val.v[i].v]

\* ------------------------------------------------------------------ state

VARIABLES
    phase,          \* "boot" until init_database has run, then "serving" or "halted"
    table_exists,   \* whether the store holds a table named recipes
    table,          \* the committed rows of recipes
    nextId,         \* the table's AUTO_INCREMENT counter
    clock,          \* the store's CURRENT_TIMESTAMP at the latest INSERT
    req,            \* per worker, the get_recipes call it is inside
    served,         \* requests received so far
    leaked,         \* connections opened by a finished operation and never closed
    last,           \* the request that finished most recently, with its response
    issued,         \* the entries get_recipes has returned in success bodies
    ext             \* the fence-extraction specification's input and output

server == <<phase, table_exists, table, nextId, clock, req, served, leaked, last, issued>>

vars == <<phase, table_exists, table, nextId, clock, req, served, leaked, last, issued, ext>>

Workers == 1..NumWorkers

\* ----------------------------------------------------------------- drafts

\* The object literal each token of an AI reply stands for.
Draft(tok) ==
    IF tok = "a"
    THEN [title |-> "Omelette",
          ingredients |-> << <<"e", "g", "g">>, <<"o", "i", "l">> >>,
          instructions |-> << <<"m", "i", "x">>, <<"f", "r", "y">> >>,
          prep_time |-> "15 mins", difficulty |-> "Easy"]
    ELSE IF tok = "b"
    THEN [title |-> "Crepe",
          ingredients |-> << <<"o", "i", "l">>, <<"\"", "e", "\\">> >>,
          instructions |-> << <<"f", "r", "y">> >>,
          prep_time |-> "1 hour", difficulty |-> "Medium",
          image_url |-> "https://example.com/image.jpg"]
    ELSE [ingredients |-> << <<"e", "g", "g">> >>,
          instructions |-> << <<"m", "i", "x">> >>,
          prep_time |-> "15 mins", difficulty |-> "Easy"]

\* The keys of the object a token stands for, in their order.
Keys(tok) ==
    IF tok = "a" THEN <<"title", "ingredients", "instructions", "prep_time", "difficulty">>
    ELSE IF tok = "b"
    THEN <<"title", "ingredients", "instructions", "prep_time", "difficulty", "image_url">>
    ELSE <<"ingredients", "instructions", "prep_time", "difficulty">>

\* The keys the INSERT's parameter tuple reads from a draft.
RequiredFields == {"title", "ingredients", "instructions", "prep_time", "difficulty"}

\* len(recipes) is defined: Python raises TypeError for a number.
Sized(val) == val.t \in {"arr", "str", "obj"}

\* What "for recipe in recipes" walks through: the items of a list, the
\* characters of a string, the keys of an object.
Iterate(val) ==
    IF val.t = "arr" THEN val.v
    ELSE IF val.t = "str" THEN [i \in 1..Len(val.v) |-> [t |-> "str", v |-> <<val.v[i]>>]]
    ELSE [i \in 1..Len(Keys(val.v[1])) |-> [t |-> "str", v |-> <<Keys(val.v[1])[i]>>]]

\* recipe['title'] ... recipe['difficulty'] all evaluate: KeyError or
\* TypeError otherwise.
CanInsert(recipe) ==
    /\ recipe.t = "obj"
    /\ RequiredFields \subseteq DOMAIN Draft(recipe.v[1])

\* The row the INSERT of lines 159-169 writes.
Row(recipe, id, ingredients, now) ==
    LET d == Draft(recipe.v[1])
    IN  [id |-> id, title |-> d.title,
         ingredients |-> JsonDumps(d.ingredients),
         instructions |-> JsonDumps(d.instructions),
         prep_time |-> d.prep_time, difficulty |-> d.difficulty,
         source_ingredients |-> ingredients, created_at |-> now]

\* The dict appended to saved_recipes: the draft with its id and the caller's text.
Entry(recipe, id, ingredients) ==
    LET d == Draft(recipe.v[1])
    IN  [k \in DOMAIN d \cup {"id", "source_ingredients"} |->
            IF k = "id" THEN id
            ELSE IF k = "source_ingredients" THEN ingredients
            ELSE d[k]]

\* Both json.loads of a fetched row succeed.
Decodable(row) == JsonLoads(row.ingredients).ok /\ JsonLoads(row.instructions).ok

\* A fetched row with its JSON columns parsed.
Decoded(row) ==
    [row EXCEPT !.ingredients = AsList(JsonLoads(row.ingredients).val),
                !.instructions = AsList(JsonLoads(row.instructions).val)]

\* A row of a recipes table that was there before this program: init_database
\* takes any table of that name as it is.  Its ingredients column is not JSON.
LegacyRow ==
    [id |-> 1, title |-> "Legacy", ingredients |-> <<"e", "g", "g">>,
     instructions |-> JsonDumps(<< <<"m", "i", "x">> >>),
     prep_time |-> "15 mins", difficulty |-> "Easy",
     source_ingredients |-> <<"e", "g", "g">>, created_at |-> 0]

\* ORDER BY created_at DESC: every order of the rows in which created_at never
\* rises; SQL leaves the order of rows with equal created_at open.
RECURSIVE SortedOrders(_)
SortedOrders(rows) ==
    IF rows = {} THEN {<<>>}
    ELSE LET newest == {r \in rows : \A q \in rows : r.created_at >= q.created_at}
         IN  UNION {{<<r>> \o rest : rest \in SortedOrders(rows \ {r})} : r \in newest}

\* A slip: one character too many.
TakeOneMore(s, n) == SubSeq(s, 1, IF Len(s) < n + 1 THEN Len(s) ELSE n + 1)

\* s[:n]
Take(s, n) == SubSeq(s, 1, IF Len(s) < n THEN Len(s) ELSE n)

\* -------------------------------------------------------------- responses

NoRequest ==
    [endpoint |-> "none", body |-> "none", ingredients |-> <<>>, status |-> 0,
     kind |-> "none", raw |-> <<>>, raw_response |-> <<>>, ai_calls |-> 0,
     parsed_len |-> -1, recipes |-> <<>>, count |-> -1, inserted |-> <<>>,
     failed_at |-> 0, conn_open |-> FALSE, recipe_id |-> 0, fault |-> "none"]

\* The response kinds whose body is a JSON object with an "error" key.
ErrorEnvelope(kind) ==
    kind \in {"invalid_input", "ai_error", "parse_error", "db_error",
              "server_error", "not_found", "models_error", "unhealthy"}

Idle ==
    [pc |-> "idle", ingredients |-> <<>>, raw |-> <<>>, recipes |-> <<>>,
     saved_recipes |-> <<>>, pending |-> <<>>]

\* ----------------------------------------------------------------- inputs

IngredientInputs == {<<>>, <<" ">>, <<"e", "g", "g">>}

\* The request bodies: none (or not JSON), a JSON list, an object without the
\* key, an object with it.
Bodies ==
    {[kind |-> "none", has |-> FALSE, ingredients |-> <<>>],
     [kind |-> "list", has |-> FALSE, ingredients |-> <<>>],
     [kind |-> "object", has |-> FALSE, ingredients |-> <<>>]}
    \cup {[kind |-> "object", has |-> TRUE, ingredients |-> i] : i \in IngredientInputs}

\* A reply of DiagLen + 1 characters that is not JSON.
LongJunk == [i \in 1..(DiagLen + 1) |-> IF i = 1 THEN "[" ELSE "x"]

Replies ==
    {Wrap("json", <<"[", "a", ",", " ", "b", "]">>),
     Wrap("plain", <<"[", "a", ",", "m", "]">>),
     Wrap("json", <<"[", "a", ",">>),
     <<"[", "]">>,
     <<"7">>,
     LongJunk}

\* recipes_json of lines 139-146 and json.loads of line 149, for each reply.
ParsedReply == [r \in Replies |-> JsonLoads(ExtractJson(r))]

\* generate_content raised.
NoReply == [ok |-> FALSE, text |-> <<>>]

AiOutcomes == {NoReply} \cup {[ok |-> TRUE, text |-> r] : r \in Replies}

StoreFaults == {"none", "connect", "execute"}

\* --------------------------------------------------------------- startup

Init ==
    /\ phase = "boot"
    /\ table_exists \in BOOLEAN
    /\ table \in (IF table_exists THEN {{}, {LegacyRow}} ELSE {{}})
    /\ nextId = (IF table = {} THEN 1 ELSE 2)
    /\ clock = 0
    /\ req = [w \in Workers |-> Idle]
    /\ served = 0
    /\ leaked = 0
    /\ last = NoRequest
    /\ issued = {}
    /\ ext = [stage |-> "off"]

\* init_database, and __main__ exiting when it returns False.
init_database ==
    /\ phase = "boot"
    /\ \E fault \in StoreFaults :
        /\ phase' = (IF fault = "none" THEN "serving" ELSE "halted")
        /\ table_exists' = (IF fault = "none" THEN TRUE ELSE table_exists)
        /\ leaked' = (IF fault = "execute" THEN leaked + 1 ELSE leaked)
    /\ UNCHANGED <<table, nextId, clock, req, served, last, issued, ext>>

\* ------------------------------------------------------------ get_recipes

CreateResponse(body, ingredients) ==
    [NoRequest EXCEPT !.endpoint = "create", !.body = body, !.ingredients = ingredients]

\* Lines 101-155: the request up to the opened connection.  state is the
\* worker's state afterwards, resp the response when the request ended here.
Begin(body, ai, connected) ==
    IF body.kind # "object"
    THEN [state |-> Idle,
          resp |-> [CreateResponse(body.kind, <<>>) EXCEPT
                        !.status = 500, !.kind = "server_error"]]
    ELSE
    LET ingredients == IF body.has THEN body.ingredients ELSE <<>>
        base == CreateResponse("object", ingredients)
    IN  IF ingredients = <<>>
        THEN [state |-> Idle,
              resp |-> [base EXCEPT !.status = 400, !.kind = "invalid_input"]]
        ELSE IF ~ai.ok
        THEN [state |-> Idle,
              resp |-> [base EXCEPT !.status = 500, !.kind = "ai_error", !.ai_calls = 1]]
        ELSE
        LET called == [base EXCEPT !.ai_calls = 1, !.raw = ai.text]
            parsed == ParsedReply[ai.text]
        IN  IF ~parsed.ok
            THEN [state |-> Idle,
                  resp |-> [called EXCEPT !.status = 500, !.kind = "parse_error",
                                          !.raw_response = Take(ai.text, DiagLen)]]
            ELSE IF ~Sized(parsed.val)
            THEN [state |-> Idle,
                  resp |-> [called EXCEPT !.status = 500, !.kind = "server_error"]]
            ELSE IF ~connected
            THEN [state |-> Idle,
                  resp |-> [called EXCEPT !.status = 500, !.kind = "db_error",
                                          !.parsed_len = Len(Iterate(parsed.val))]]
            ELSE [state |-> [pc |-> "saving", ingredients |-> ingredients,
                             raw |-> ai.text, recipes |-> Iterate(parsed.val),
                             saved_recipes |-> <<>>, pending |-> <<>>],
                  resp |-> called]

\* The request reaches model.generate_content (line 131).
CallsAi(body) == body.kind = "object" /\ body.has /\ body.ingredients # <<>>

\* The request reaches get_db_connection (line 154).
Connects(body, ai) ==
    CallsAi(body) /\ ai.ok /\ ParsedReply[ai.text].ok /\ Sized(ParsedReply[ai.text].val)

get_recipes_begin(w) ==
    /\ phase = "serving"
    /\ served < MaxRequests
    /\ req[w].pc = "idle"
    /\ \A v \in Workers : v < w => req[v].pc # "idle"
    /\ \E body \in Bodies :
       \E ai \in (IF CallsAi(body) THEN AiOutcomes ELSE {NoReply}) :
       \E connected \in (IF Connects(body, ai) THEN BOOLEAN ELSE {FALSE}) :
        LET out == Begin(body, ai, connected)
        IN  /\ req' = [req EXCEPT ![w] = out.state]
            /\ last' = (IF out.state.pc = "idle" THEN out.resp ELSE last)
    /\ served' = served + 1
    /\ UNCHANGED <<phase, table_exists, table, nextId, clock, leaked, issued, ext>>

\* CURRENT_TIMESTAMP when a statement runs: the store's clock has stayed where
\* it was at the last INSERT, or has moved on.
Timestamps(t) == {u \in {t, t + 1} : u <= MaxClock}

\* The response of a get_recipes call that ends while saving.
Saving(w) ==
    [CreateResponse("object", req[w].ingredients) EXCEPT
        !.ai_calls = 1, !.raw = req[w].raw,
        !.parsed_len = Len(req[w].recipes),
        !.inserted = [i \in 1..Len(req[w].pending) |-> req[w].pending[i].id]]

\* A slip: the connection runs with autocommit, so the rows of a batch are in
\* the table whether or not conn.commit() is reached.
CommittedEarly(rows, pending, committed) ==
    rows \cup {pending[i] : i \in 1..Len(pending)}

\* A slip: a batch that fails is undone by deleting the rows of its caller's
\* text, other batches' rows among them.
CommittedOrPurged(rows, pending, committed) ==
    IF committed THEN rows \cup {pending[i] : i \in 1..Len(pending)}
    ELSE {r \in rows : \A i \in 1..Len(pending) :
                r.source_ingredients # pending[i].source_ingredients}

\* The table once get_recipes has left the connection: with conn.commit()
\* reached (line 177) the pending rows are in it; an exception before that
\* leaves the rows uncommitted, and the table as it was.
Committed(rows, pending, committed) ==
    IF committed THEN rows \cup {pending[i] : i \in 1..Len(pending)} ELSE rows

\* A slip: the loop leaves after its first pass.
MoreDraftsFirstOnly(w) ==
    req[w].saved_recipes = <<>> /\ req[w].recipes # <<>>

\* The for loop of line 158 has a draft left.
MoreDrafts(w) == Len(req[w].saved_recipes) < Len(req[w].recipes)

\* One pass of the loop of lines 158-175.  The connection is open; an
\* exception leaves the function without closing it or committing.
get_recipes_insert(w) ==
    /\ req[w].pc = "saving"
    /\ MoreDrafts(w)
    /\ LET recipe == req[w].recipes[Len(req[w].saved_recipes) + 1]
       IN  \E executed \in BOOLEAN, now \in Timestamps(clock) :
            IF CanInsert(recipe) /\ executed
            THEN /\ req' = [req EXCEPT
                        ![w].saved_recipes =
                            Append(@, Entry(recipe, nextId, req[w].ingredients)),
                        ![w].pending =
                            Append(@, Row(recipe, nextId, req[w].ingredients, now))]
                 /\ nextId' = nextId + 1
                 /\ clock' = now
                 /\ UNCHANGED <<table, leaked, last>>
            ELSE /\ req' = [req EXCEPT ![w] = Idle]
                 /\ last' = [Saving(w) EXCEPT
                        !.status = 500,
                        !.kind = (IF CanInsert(recipe) THEN "db_error" ELSE "server_error"),
                        !.failed_at = Len(req[w].saved_recipes) + 1,
                        !.conn_open = TRUE]
                 /\ table' = Committed(table, req[w].pending, FALSE)
                 /\ leaked' = leaked + 1
                 /\ UNCHANGED <<nextId, clock>>
    /\ UNCHANGED <<phase, table_exists, served, issued, ext>>

\* Lines 177-190: commit, close, respond.
get_recipes_commit(w) ==
    /\ req[w].pc = "saving"
    /\ ~MoreDrafts(w)
    /\ \E committed \in BOOLEAN :
        /\ table' = Committed(table, req[w].pending, committed)
        /\ last' = (IF committed
                    THEN [Saving(w) EXCEPT !.status = 200, !.kind = "success",
                                           !.recipes = req[w].saved_recipes,
                                           !.count = Len(req[w].saved_recipes)]
                    ELSE [Saving(w) EXCEPT !.status = 500, !.kind = "db_error",
                                           !.conn_open = TRUE])
        /\ leaked' = (IF committed THEN leaked ELSE leaked + 1)
        /\ issued' = (IF committed
                      THEN issued \cup {req[w].saved_recipes[i] :
                                            i \in 1..Len(req[w].saved_recipes)}
                      ELSE issued)
    /\ req' = [req EXCEPT ![w] = Idle]
    /\ UNCHANGED <<phase, table_exists, nextId, clock, served, ext>>

\* ---------------------------------------------------------- read handlers

\* list_recipes.  The rows are parsed before the connection is closed.
list_recipes ==
    /\ phase = "serving"
    /\ served < MaxRequests
    /\ \E fault \in StoreFaults, rows \in SortedOrders(table) :
        LET base == [NoRequest EXCEPT !.endpoint = "list", !.fault = fault]
            readable == \A i \in 1..Len(rows) : Decodable(rows[i])
        IN  /\ last' =
                (IF fault # "none"
                 THEN [base EXCEPT !.status = 500, !.kind = "db_error",
                                   !.conn_open = (fault = "execute")]
                 ELSE IF ~readable
                 THEN [base EXCEPT !.status = 500, !.kind = "unhandled",
                                   !.conn_open = TRUE]
                 ELSE [base EXCEPT !.status = 200, !.kind = "success",
                                   !.recipes = [i \in 1..Len(rows) |-> Decoded(rows[i])],
                                   !.count = Len(rows)])
            /\ leaked' = (IF fault = "execute" \/ (fault = "none" /\ ~readable)
                          THEN leaked + 1 ELSE leaked)
    /\ served' = served + 1
    /\ UNCHANGED <<phase, table_exists, table, nextId, clock, req, issued, ext>>

\* get_recipe.  The connection is closed before the row is parsed.
get_recipe(recipe_id) ==
    /\ phase = "serving"
    /\ served < MaxRequests
    /\ \E fault \in StoreFaults :
        LET base == [NoRequest EXCEPT !.endpoint = "get", !.recipe_id = recipe_id,
                                     !.fault = fault]
            found == {r \in table : r.id = recipe_id}
        IN  /\ last' =
                (IF fault # "none"
                 THEN [base EXCEPT !.status = 500, !.kind = "db_error",
                                   !.conn_open = (fault = "execute")]
                 ELSE IF found = {}
                 THEN [base EXCEPT !.status = 404, !.kind = "not_found"]
                 ELSE LET recipe == CHOOSE r \in found : TRUE
                      IN  IF ~Decodable(recipe)
                          THEN [base EXCEPT !.status = 500, !.kind = "unhandled"]
                          ELSE [base EXCEPT !.status = 200, !.kind = "success",
                                            !.recipes = <<Decoded(recipe)>>,
                                            !.count = 1])
            /\ leaked' = (IF fault = "execute" THEN leaked + 1 ELSE leaked)
    /\ served' = served + 1
    /\ UNCHANGED <<phase, table_exists, table, nextId, clock, req, issued, ext>>

\* health_check
health_check ==
    /\ phase = "serving"
    /\ served < MaxRequests
    /\ \E fault \in StoreFaults :
        LET base == [NoRequest EXCEPT !.endpoint = "health", !.fault = fault]
        IN  /\ last' =
                (IF fault # "none"
                 THEN [base EXCEPT !.status = 500, !.kind = "unhealthy",
                                   !.conn_open = (fault = "execute")]
                 ELSE [base EXCEPT !.status = 200, !.kind = "success",
                                   !.count = Cardinality(table)])
            /\ leaked' = (IF fault = "execute" THEN leaked + 1 ELSE leaked)
    /\ served' = served + 1
    /\ UNCHANGED <<phase, table_exists, table, nextId, clock, req, issued, ext>>

\* list_models: a failure of the provider is answered with status 200.
list_models ==
    /\ phase = "serving"
    /\ served < MaxRequests
    /\ \E listed \in BOOLEAN :
        last' = [NoRequest EXCEPT !.endpoint = "models", !.status = 200,
                                  !.kind = (IF listed THEN "success" ELSE "models_error")]
    /\ served' = served + 1
    /\ UNCHANGED <<phase, table_exists, table, nextId, clock, req, leaked, issued, ext>>

\* The identifiers a client asks get_recipe for.
RecipeIds == 1..MaxRecipeId

Next ==
    \/ init_database
    \/ \E w \in Workers : get_recipes_begin(w)
    \/ \E w \in Workers : get_recipes_insert(w)
    \/ \E w \in Workers : get_recipes_commit(w)
    \/ list_recipes
    \/ \E recipe_id \in RecipeIds : get_recipe(recipe_id)
    \/ health_check
    \/ list_models

Spec == Init /\ [][Next]_vars

\* ------------------------------------------------- fence extraction, alone

ContentAlphabet == {"[", "]", ",", "a", "\"", Backtick}

Contents == UNION {[1..n -> ContentAlphabet] : n \in 0..MaxContentLen}

Wrappings == {"json", "plain", "none"}

InitExtract ==
    /\ phase = "boot"
    /\ table_exists = FALSE
    /\ table = {}
    /\ nextId = 1
    /\ clock = 0
    /\ req = [w \in Workers |-> Idle]
    /\ served = 0
    /\ leaked = 0
    /\ last = NoRequest
    /\ issued = {}
    /\ ext \in {[stage |-> "raw", content |-> c, wrapping |-> k, raw |-> Wrap(k, c),
              recipes_json |-> <<>>, parsed |-> [ok |-> FALSE, val |-> NoValue]] :
                c \in Contents, k \in Wrappings}

\* Lines 139-149 applied to ext.raw.
extract_reply ==
    /\ ext.stage = "raw"
    /\ ext' = [ext EXCEPT !.stage = "done",
                          !.recipes_json = ExtractJson(ext.raw),
                          !.parsed = JsonLoads(ExtractJson(ext.raw))]
    /\ UNCHANGED server

NextExtract == extract_reply

SpecExtract == InitExtract /\ [][NextExtract]_vars

\* A JSON array text: it starts with "[", ends with "]" and parses as an array.
IsArrayText(c) ==
    /\ c # <<>>
    /\ c[1] = "[" /\ c[Len(c)] = "]"
    /\ JsonLoads(c).ok /\ JsonLoads(c).val.t = "arr"

\* C9: for every JSON array text C without a triple backtick, the json-fenced,
\* the plain-fenced and the unwrapped reply all extract to C and parse to the
\* array C parses to.
C9_FenceWrappingsAgree ==
    (ext.stage = "done" /\ IsArrayText(ext.content) /\ ~Contains(ext.content, Fence))
        => /\ ext.recipes_json = ext.content
           /\ ext.parsed = JsonLoads(ext.content)
           /\ ext.parsed.ok

C9_Witness ==
    /\ ext.stage = "done"
    /\ ext.wrapping = "json"
    /\ ext.content = <<"[", "\"", Backtick, "\"", "]">>
    /\ ext.recipes_json = ext.content
    /\ ext.parsed.val = [t |-> "arr", v |-> <<[t |-> "str", v |-> <<Backtick>>]>>]
\* ------------------------------------------------------- claims on the server

Ids(rows) == {r.id : r \in rows}

InsertedIds == {last.inserted[i] : i \in 1..Len(last.inserted)}

\* C1: a get_recipes request whose ingredients are empty or only whitespace is
\* answered 400 InvalidInput, with no call to the AI service and no INSERT.
C1_BlankIngredientsRejected ==
    (last.endpoint = "create" /\ last.body = "object" /\ Strip(last.ingredients) = <<>>)
        => /\ last.status = 400
           /\ last.kind = "invalid_input"
           /\ last.ai_calls = 0
           /\ last.inserted = <<>>

\* An INSERT of the batch raised after at least one INSERT of it had run.
InsertFailedPartway ==
    /\ last.endpoint = "create"
    /\ last.kind = "db_error"
    /\ last.failed_at > 1

\* C2 as stated: when an INSERT fails partway through a batch the response is
\* the store error 500, no later draft is inserted, and the rows inserted
\* before it are persisted in the store.
C2_EarlierRowsPersist ==
    InsertFailedPartway
        => /\ last.status = 500
           /\ Len(last.inserted) = last.failed_at - 1
           /\ InsertedIds \subseteq Ids(table)

\* C2 amended: when an INSERT fails partway through a batch the response is
\* the store error 500, no later draft is inserted, and none of the rows
\* inserted before it is in the store: they were never committed.
C2_EarlierRowsNotCommitted ==
    InsertFailedPartway
        => /\ last.status = 500
           /\ Len(last.inserted) = last.failed_at - 1
           /\ InsertedIds \cap Ids(table) = {}

C2_Witness ==
    /\ InsertFailedPartway
    /\ last.failed_at = 2
    /\ Len(last.inserted) = 1
    /\ table # {}

\* C3: every connection an operation opened is closed once the operation has
\* answered.
C3_ConnectionsClosed == leaked = 0 /\ ~last.conn_open

\* The row of entry e of a success body is in the table, and is the only one
\* with its identifier.
Persisted(e) ==
    /\ \E r \in table :
        /\ r.id = e.id
        /\ r.title = e.title
        /\ r.ingredients = JsonDumps(e.ingredients)
        /\ r.instructions = JsonDumps(e.instructions)
        /\ r.prep_time = e.prep_time
        /\ r.difficulty = e.difficulty
        /\ r.source_ingredients = e.source_ingredients
    /\ Cardinality({r \in table : r.id = e.id}) = 1

\* C4: a get_recipes request with non-empty ingredients ends either in a
\* success body with exactly as many entries (and count) as the parsed reply
\* has items, each of them a persisted row with an identifier of its own, or
\* in an error response without recipes.
C4_AllOrError ==
    (last.endpoint = "create" /\ last.body = "object" /\ last.ingredients # <<>>)
        => \/ /\ last.status = 200
              /\ last.kind = "success"
              /\ last.raw \in Replies
              /\ ParsedReply[last.raw].ok
              /\ Len(last.recipes) = Len(Iterate(ParsedReply[last.raw].val))
              /\ last.count = Len(last.recipes)
              /\ \A i \in 1..Len(last.recipes) :
                    /\ Persisted(last.recipes[i])
                    /\ last.recipes[i].source_ingredients = last.ingredients
                    /\ \A j \in 1..Len(last.recipes) :
                          last.recipes[i].id = last.recipes[j].id => i = j
           \/ /\ last.status \in {400, 500}
              /\ ErrorEnvelope(last.kind)
              /\ last.recipes = <<>>

\* A batch of two was answered with success while another request was inside
\* its own batch.
C4_Witness ==
    /\ last.endpoint = "create"
    /\ last.kind = "success"
    /\ last.count = 2
    /\ \E w \in Workers : req[w].pc = "saving" /\ req[w].pending # <<>>

\* The AI service replied to the request.
Replied ==
    /\ last.endpoint = "create"
    /\ last.ai_calls = 1
    /\ last.kind # "ai_error"
    /\ last.raw \in Replies

\* C5: a reply that is not JSON after fence extraction is answered with the
\* parse error 500 whose raw_response is the first characters of the raw
\* reply, DiagLen at most, and no row is inserted.
C5_MalformedReply ==
    (Replied /\ ~ParsedReply[last.raw].ok)
        => /\ last.status = 500
           /\ last.kind = "parse_error"
           /\ Len(last.raw_response) <= DiagLen
           /\ Len(last.raw_response) <= Len(last.raw)
           /\ last.raw_response = SubSeq(last.raw, 1, Len(last.raw_response))
           /\ (Len(last.raw) <= DiagLen => last.raw_response = last.raw)
           /\ last.inserted = <<>>

C5_Witness ==
    /\ Replied
    /\ last.kind = "parse_error"
    /\ Len(last.raw) > DiagLen
    /\ Len(last.raw_response) = DiagLen

\* C6: whatever fails inside a handler, the handler answers with a JSON error
\* envelope; nothing leaves it as an unhandled fault.
C6_EveryFailureEnveloped ==
    last.endpoint # "none"
        => /\ last.kind # "unhandled"
           /\ last.kind # "success" => ErrorEnvelope(last.kind)

\* C7: list_recipes returns a recipe inserted later before one inserted
\* earlier.
C7_NewestFirst ==
    (last.endpoint = "list" /\ last.kind = "success")
        => \A i \in 1..Len(last.recipes) : \A j \in 1..Len(last.recipes) :
              i < j => last.recipes[i].id > last.recipes[j].id

\* C8: a row comes into the table only from the batch of a get_recipes call
\* whose reply parsed; a row that is in the table stays in it as it is; a step
\* that receives a request, as every read handler's only step does, leaves
\* the table alone.
C8_RowsOnlyFromCreate ==
    [][/\ table \subseteq table'
       /\ \A r \in table' \ table :
            \E w \in Workers :
                /\ req[w].pc = "saving"
                /\ ParsedReply[req[w].raw].ok
                /\ \E i \in 1..Len(req[w].pending) : req[w].pending[i] = r
       /\ served' # served => table' = table]_vars

\* A read handler has answered with rows that a batch committed.
C8_Witness ==
    /\ last.endpoint = "list"
    /\ last.kind = "success"
    /\ Len(last.recipes) = 2
    /\ Ids(table) = {e.id : e \in issued}

\* C10: get_recipe of an identifier that a success body of get_recipes
\* returned gives back that entry's ingredients and instructions, item by item;
\* get_recipe of an identifier no row has, the store not failing, answers 404.
C10_RoundTrip ==
    last.endpoint = "get"
        => /\ \A e \in issued :
                (e.id = last.recipe_id /\ last.fault = "none")
                    => /\ last.kind = "success"
                       /\ last.recipes[1].id = e.id
                       /\ last.recipes[1].ingredients = e.ingredients
                       /\ last.recipes[1].instructions = e.instructions
           /\ (last.recipe_id \notin Ids(table) /\ last.fault = "none")
                    => last.status = 404 /\ last.kind = "not_found"

C10_Witness ==
    /\ last.endpoint = "get"
    /\ last.kind = "success"
    /\ \E e \in issued : e.id = last.recipe_id
    /\ last.recipes[1].ingredients = << <<"o", "i", "l">>, <<"\"", "e", "\\">> >>
    /\ last.recipes[1].instructions = << <<"f", "r", "y">> >>
=============================================================================
